---- MODULE Spec2Model ----
(***************************************************************************)
(* Model of the mparse parser-combinator library (parser.h, final variant).*)
(*                                                                         *)
(* A std::string_view is a record [off, len] into the buffer `buf`.  A     *)
(* ParseResult<T> is a record [result, input, error, thrown, oob]:         *)
(*   result  std::optional<T>: <<>> (nullopt) or <<v>>;                    *)
(*   input   the string_view stored in the result;                         *)
(*   error   the diagnostic, as the sequence of the pieces fmt::format     *)
(*           puts together;                                                *)
(*   thrown  TRUE when the call did not return but left by the             *)
(*           std::out_of_range that string_view::substr(pos) throws for    *)
(*           pos > size();                                                 *)
(*   oob     TRUE when the call evaluated front() of an empty view, which  *)
(*           reads the byte behind the end of the view (`past`).           *)
(* A Parser<T> is a record [op, ...] naming the factory that built it and  *)
(* the values its closure captured; Run(p, input) is Parser::operator().   *)
(* `cells` is the heap of the cells parse_recursive allocates with         *)
(* std::make_shared: a reference to a Parser<T> held by a closure is the   *)
(* name of its cell.  `again` is the outcome of invoking the same parser   *)
(* on the same input a second time.  `threads` holds, for each of the      *)
(* threads that invoke one shared parser side by side, its position, the   *)
(* locals of its loop, its input and its outcome.                          *)
(***************************************************************************)
EXTENDS Integers, Sequences, FiniteSets, TLC

VARIABLES buf, past, pc, call, frame, result, cells, again, threads

vars == <<buf, past, pc, call, frame, result, cells, again, threads>>

----------------------------------------------------------------------------
(* Bounds of the model.                                                    *)

MaxLen == 3

MaxIter == 8

InputChars == {"a", "b", "x", ",", ";"}

PastBytes == {"NUL", "a"}

GoldenInputs ==
  { <<"a", "b", "c">>,
    <<"x", "y", "z">>,
    <<"a", ",", "b", "c", ",", "d", ";">>,
    <<"a", "b", "a", "b", "x">>,
    <<"h", "e", "l", "l", "o", ",", " ", "w", "o", "r", "l", "d">> }

Inputs == (UNION { [1..n -> InputChars] : n \in 0..MaxLen }) \cup GoldenInputs

\* The inputs of the number and expression parsers.
ArithChars == {"0", "1", "2", "-", "+", "*", "(", ")"}

ArithPast == {"NUL", "1"}

GoldenArith ==
  { <<"1", "2", "3">>,
    <<"-", "1", "2", "3">>,
    <<"1", "+", "2", "*", "8">>,
    <<"(", "1", "+", "2", ")", "*", "8">> }

\* a op b op c, (a op b) op c and a op (b op c).
Operations ==
  UNION { { <<x[1], o[1], x[2], o[2], x[3]>>,
            <<"(", x[1], o[1], x[2], ")", o[2], x[3]>>,
            <<x[1], o[1], "(", x[2], o[2], x[3], ")">> } :
          x \in [1..3 -> {"1", "2"}], o \in [1..2 -> {"+", "*"}] }

ArithInputs ==
  (UNION { [1..n -> ArithChars] : n \in 0..MaxLen }) \cup GoldenArith
    \cup Operations

\* The inputs of the trimmed parsers.
TrimInputs ==
  (UNION { [1..n -> {" ", "a", "x"}] : n \in 0..MaxLen })
    \cup { <<" ", "a", " ", " ", "x">>, <<" ", " ", "a", "x", " ", " ">> }

\* The inputs of the threads that share a parser.
ConcInputs ==
  (UNION { [1..n -> {"1", "2", "+"}] : n \in 0..MaxLen }) \cup GoldenArith

----------------------------------------------------------------------------
(* Characters.                                                             *)

Ascii ==
  [ c \in {"NUL", " ", "(", ")", "*", "+", ",", "-", "0", "1", "2", "3",
           "8", "9", ";", "a", "b", "c", "d", "e", "h", "l", "o", "r", "w",
           "x", "y", "z"} |->
    CASE c = "NUL" -> 0  [] c = " " -> 32 [] c = "(" -> 40 [] c = ")" -> 41
      [] c = "*" -> 42   [] c = "+" -> 43 [] c = "," -> 44 [] c = "-" -> 45
      [] c = "0" -> 48   [] c = "1" -> 49 [] c = "2" -> 50 [] c = "3" -> 51
      [] c = "8" -> 56   [] c = "9" -> 57
      [] c = ";" -> 59   [] c = "a" -> 97 [] c = "b" -> 98 [] c = "c" -> 99
      [] c = "d" -> 100  [] c = "e" -> 101 [] c = "h" -> 104
      [] c = "l" -> 108  [] c = "o" -> 111 [] c = "r" -> 114
      [] c = "w" -> 119  [] c = "x" -> 120 [] c = "y" -> 121
      [] c = "z" -> 122 ]

toupper(n) == IF n >= 97 /\ n <= 122 THEN n - 32 ELSE n

isdigit(ch) == Ascii[ch] >= 48 /\ Ascii[ch] <= 57

isalpha(ch) == Ascii[ch] >= 97 /\ Ascii[ch] <= 122

isalnum(ch) == isdigit(ch) \/ isalpha(ch)

isspace(ch) == Ascii[ch] = 32

----------------------------------------------------------------------------
(* std::string_view over buf.                                              *)

Whole == [off |-> 0, len |-> Len(buf)]

empty(input) == input.len = 0

\* front() of an empty view is undefined: it reads the byte behind the
\* view, which is the next one of the buffer or the byte behind the buffer.
front(input) ==
  IF input.off < Len(buf) THEN buf[input.off + 1] ELSE past

\* substr(pos, n) throws std::out_of_range when pos > size().
substr_throws(input, pos) == pos > input.len

substr(input, pos, n) ==
  [off |-> input.off + pos,
   len |-> IF n < input.len - pos THEN n ELSE input.len - pos]

substr_from(input, pos) == [off |-> input.off + pos, len |-> input.len - pos]

Text(input) == SubSeq(buf, input.off + 1, input.off + input.len)

----------------------------------------------------------------------------
(* ParseResult<T>.                                                         *)

make_parse_result(value, remaining) ==
  [result |-> <<value>>, input |-> remaining, error |-> <<>>,
   thrown |-> FALSE, oob |-> FALSE]

empty_parse_result(input, error) ==
  [result |-> <<>>, input |-> input, error |-> error,
   thrown |-> FALSE, oob |-> FALSE]

has_value(r) == r.result # <<>>

value(r) == r.result[1]

\* The call left by an exception: nothing is returned.
out_of_range(input) ==
  [result |-> <<>>, input |-> input, error |-> <<"std::out_of_range">>,
   thrown |-> TRUE, oob |-> FALSE]

\* r, with the record of an earlier read behind the end of the view.
Taint(r, flag) == [r EXCEPT !.oob = @ \/ flag]

\* make_parse_result(input.substr(0, 1), input.substr(1))
consume_one(input) ==
  IF substr_throws(input, 1) THEN out_of_range(input)
  ELSE make_parse_result(substr(input, 0, 1), substr_from(input, 1))

----------------------------------------------------------------------------
(* Parser values: what each factory captures.                              *)

Literal(ch) == [ch |-> ch, op |-> "literal"]

Range(first, last) == [op |-> "range", first |-> first, last |-> last]

Str(str) == [op |-> "str", str |-> str]

AnyOf(str) == [op |-> "any_of", str |-> str]

NoneOf(str) == [op |-> "none_of", str |-> str]

AnyChar == [op |-> "any"]

Digit(first, last) == [op |-> "digit", first |-> first, last |-> last]

\* detail::parse_char_class(matcher); m is the matcher.
CharClass0(m) == [op |-> "char_class", m |-> m]

CharClass(cls) == CharClass0([first |-> 0, last |-> 9, cls |-> cls])

EndOfInput == [op |-> "end"]

Not(parser) == [op |-> "not", parser |-> parser]

Never == [op |-> "never"]

Pure(v) == [value |-> v, op |-> "pure"]

\* parse_opt(parser): the value is std::optional, <<>> or <<v>>.
Opt(parser) == [op |-> "opt", parser |-> parser]

OrElse(self, parser) == [op |-> "or_else", parser |-> parser, self |-> self]

AndThen(self, next) == [op |-> "and_then", self |-> self, next |-> next]

AndNot(self, next) == [op |-> "and_not", self |-> self, next |-> next]

Skip(parser, next) == [op |-> "skip", parser |-> parser, next |-> next]

\* max is std::optional: <<>> (nullopt) or <<m>>.
SomeSv(parser, max) == [op |-> "some_sv", parser |-> parser, max |-> max]

NSv(parser, min, max) ==
  [op |-> "n_sv", parser |-> parser, max |-> max, min |-> min]

Some(parser, max) == [op |-> "some", parser |-> parser, max |-> max]

N(parser, min, max) ==
  [op |-> "n", parser |-> parser, max |-> max, min |-> min]

Transform(self, fn) == [op |-> "transform", self |-> self, fn |-> fn]

\* and_then with a callback fn : T -> Parser<U>.
AndThenFn(self, fn) == [op |-> "and_then_fn", self |-> self, fn |-> fn]

DelimitedBy(parser, delimiter, terminator) ==
  [op |-> "delimited_by", parser |-> parser, delimiter |-> delimiter,
   terminator |-> terminator]

\* std::vector<StringParser> ps(parsers)
Sequence(ps) == [op |-> "sequence", ps |-> ps]

\* parse_ref(parser): the closure holds a reference to the Parser<T> of
\* the cell.
Ref(cell) == [op |-> "ref", cell |-> cell]

\* What parse_recursive returns: the closure holds parser_ptr.
Recursive(cell) == [op |-> "recursive", cell |-> cell]

RECURSIVE Run(_, _)

----------------------------------------------------------------------------
(* Primitive matchers.                                                     *)

parse_never(input) == empty_parse_result(input, <<"Error: never">>)

pure(v, input) == make_parse_result(v, input)

parse_not(parser, input) ==
  LET r == Run(parser, input) IN
  IF r.thrown THEN r
  ELSE IF has_value(r) THEN Taint(empty_parse_result(input, <<"Error: not">>), r.oob)
  ELSE Taint(consume_one(input), r.oob)

\* The std::is* matchers and parse_digit's is_valid_digit.
matcher(m, ch) ==
  CASE m.cls = "alpha" -> isalpha(ch)
    [] m.cls = "alnum" -> isalnum(ch)
    [] m.cls = "space" -> isspace(ch)
    [] m.cls = "digit" ->
         LET val == Ascii[ch] - 48 IN
         isdigit(ch) /\ val >= m.first /\ val <= m.last

parse_char_class(m, input) ==
  Taint(IF matcher(m, front(input)) THEN consume_one(input)
        ELSE empty_parse_result(input,
                                <<"Error: unexpected char", front(input)>>),
        empty(input))

str_contains(str, ch) == \E i \in 1..Len(str) : str[i] = ch

\* parse_literal without the test for an empty input.
parse_literal_unguarded(ch, input) ==
  IF front(input) = ch THEN Taint(consume_one(input), empty(input))
  ELSE Taint(empty_parse_result(input,
                                <<"Expected", ch, "but saw", front(input)>>),
             empty(input))

parse_literal(ch, input) ==
  IF ~empty(input) /\ front(input) = ch THEN consume_one(input)
  ELSE Taint(empty_parse_result(input,
                                <<"Expected", ch, "but saw", front(input)>>),
             empty(input))

parse_range(first, last, input) ==
  IF ~empty(input) /\ Ascii[front(input)] >= Ascii[first]
                   /\ Ascii[front(input)] <= Ascii[last]
  THEN consume_one(input)
  ELSE Taint(empty_parse_result(input,
               <<"Error: expected [", first, "-", last, "] but saw",
                 front(input)>>),
             empty(input))

starts_with(input, str) ==
  /\ Len(str) <= input.len
  /\ \A i \in 1..Len(str) : buf[input.off + i] = str[i]

parse_str(str, input) ==
  IF starts_with(input, str)
  THEN make_parse_result(substr(input, 0, Len(str)),
                         substr_from(input, Len(str)))
  ELSE empty_parse_result(input,
         <<"Error: expected">> \o str \o <<"but saw">> \o Text(input))

parse_any_of(str, input) ==
  Taint(IF ~str_contains(str, front(input))
        THEN empty_parse_result(input,
               <<"Error: expected any of">> \o str
                 \o <<"but saw", front(input)>>)
        ELSE consume_one(input),
        empty(input))

parse_none_of(str, input) ==
  Taint(IF str_contains(str, front(input))
        THEN empty_parse_result(input,
               <<"Error: expected none of">> \o str
                 \o <<"but saw", front(input)>>)
        ELSE consume_one(input),
        empty(input))

parse_any(input) ==
  IF empty(input) THEN empty_parse_result(input, <<"Error: empty input">>)
  ELSE consume_one(input)

parse_end(input) ==
  IF ~empty(input) THEN empty_parse_result(input, <<"Error: input not empty">>)
  ELSE make_parse_result("unit", input)

----------------------------------------------------------------------------
(* The callbacks passed to transform and and_then: those of the library   *)
(* and those of the grammars built on it (parsers::number, the recursive   *)
(* term and expression parsers).                                           *)

\* [](auto value) { return detail::discontinuous_string_view(value); }
to_discontinuous == [f |-> "to_discontinuous"]

\* [](std::string_view str) { return static_cast<int>(str.front() - '0'); }
digit_value == [f |-> "digit_value"]

\* [min](const auto& results) { ... parse_never ... pure(results) }
check_min(min) == [min |-> min, f |-> "check_min"]

\* [](auto sv) { char ch = std::toupper(sv.front()); return 10 + (ch - 'A'); }
hexit_value == [f |-> "hexit_value"]

\* [value](auto&&) -> U { return value; }
as_value(v) == [value |-> v, f |-> "as_value"]

\* [val](std::vector<int> digits) { ... result = (result * 10) + d ... }
fold_digits(val) == [value |-> val, f |-> "fold_digits"]

\* [](int val) { return parse_some(parse_digit()).transform([val]...); }
positive_tail == [f |-> "positive_tail"]

\* [](int val) { return -val; }
negate == [f |-> "negate"]

\* [lhs](int rhs) { return lhs * rhs; }
times(lhs) == [value |-> lhs, f |-> "times"]

\* [lhs](int rhs) { return lhs + rhs; }
plus(lhs) == [value |-> lhs, f |-> "plus"]

\* [&term](int lhs) { return parse_ref(term).transform([lhs]...); }
times_ref(cell) == [cell |-> cell, f |-> "times_ref"]

\* [&expr](int lhs) { return parse_ref(expr).transform([lhs]...); }
plus_ref(cell) == [cell |-> cell, f |-> "plus_ref"]

\* The loop of the digits callback of parsers::number.
RECURSIVE fold(_, _)
fold(acc, digits) ==
  IF digits = <<>> THEN acc
  ELSE fold(acc * 10 + Head(digits), Tail(digits))

apply_fn(fn, v) ==
  CASE fn.f = "to_discontinuous" -> v
    [] fn.f = "digit_value" -> Ascii[front(v)] - 48
    [] fn.f = "hexit_value" -> 10 + (toupper(Ascii[front(v)]) - 65)
    [] fn.f = "as_value" -> fn.value
    [] fn.f = "fold_digits" -> fold(fn.value, v)
    [] fn.f = "negate" -> 0 - v
    [] fn.f = "times" -> fn.value * v
    [] fn.f = "plus" -> fn.value + v

apply_parser_fn(fn, v) ==
  CASE fn.f = "check_min" -> IF Len(v) < fn.min THEN Never ELSE Pure(v)
    [] fn.f = "positive_tail" ->
         Transform(Some(Digit(0, 9), <<>>), fold_digits(v))
    [] fn.f = "times_ref" -> Transform(Ref(fn.cell), times(v))
    [] fn.f = "plus_ref" -> Transform(Ref(fn.cell), plus(v))

\* Whether the parser is a StringParser (Parser<std::string_view>), which
\* selects detail::parser_impl<std::string_view>.
RECURSIVE IsStringParser(_)
IsStringParser(p) ==
  CASE p.op \in {"literal", "range", "str", "any_of", "none_of", "any",
                 "char_class", "not", "some_sv", "n_sv", "sequence"} -> TRUE
    [] p.op \in {"or_else", "and_not"} -> IsStringParser(p.self)
    [] p.op = "and_then" -> IsStringParser(p.next)
    [] OTHER -> FALSE

\* fmt::format("{}", value) of the value a parser produced.
fmt_value(p, v) == IF IsStringParser(p) THEN Text(v) ELSE <<ToString(v)>>

----------------------------------------------------------------------------
(* Combinator algebra: the methods of Parser<T>.                           *)

parse_opt(parser, input) ==
  LET r == Run(parser, input) IN
  IF r.thrown THEN r
  ELSE IF has_value(r)
  THEN Taint(make_parse_result(<<value(r)>>, r.input), r.oob)
  ELSE Taint(make_parse_result(<<>>, input), r.oob)

\* or_else trying the alternative where the first parser gave up.
or_else_at_failure(self, parser, input) ==
  LET r == Run(self, input) IN
  IF r.thrown THEN r
  ELSE IF ~has_value(r) THEN Taint(Run(parser, r.input), r.oob)
  ELSE r

or_else(self, parser, input) ==
  LET r == Run(self, input) IN
  IF r.thrown THEN r
  ELSE IF ~has_value(r) THEN Taint(Run(parser, input), r.oob)
  ELSE r

\* and_then(F) running the parser the callback returns on the input of
\* the whole parser.
and_then_fn_at_start(self, fn, input) ==
  LET r == Run(self, input) IN
  IF r.thrown THEN r
  ELSE IF ~has_value(r) THEN Taint(empty_parse_result(input, r.error), r.oob)
  ELSE Taint(Run(apply_parser_fn(fn, value(r)), input), r.oob)

and_then_fn(self, fn, input) ==
  LET r == Run(self, input) IN
  IF r.thrown THEN r
  ELSE IF ~has_value(r) THEN Taint(empty_parse_result(input, r.error), r.oob)
  ELSE Taint(Run(apply_parser_fn(fn, value(r)), r.input), r.oob)

\* and_then(Parser) keeping the value of the first parser.
and_then_first_value(self, next, input) ==
  LET r == Run(self, input) IN
  IF r.thrown THEN r
  ELSE IF ~has_value(r) THEN Taint(empty_parse_result(input, r.error), r.oob)
  ELSE LET next_result == Run(next, r.input) IN
       IF has_value(next_result)
       THEN Taint(make_parse_result(value(r), next_result.input),
                  r.oob \/ next_result.oob)
       ELSE Taint(next_result, r.oob)

and_then(self, next, input) ==
  LET r == Run(self, input) IN
  IF r.thrown THEN r
  ELSE IF ~has_value(r) THEN Taint(empty_parse_result(input, r.error), r.oob)
  ELSE Taint(Run(next, r.input), r.oob)

\* and_not looking at the start of the input instead of behind the match.
and_not_at_start(self, next, input) ==
  LET r == Run(self, input) IN
  IF r.thrown THEN r
  ELSE IF ~has_value(r) THEN Taint(empty_parse_result(input, r.error), r.oob)
  ELSE LET next_result == Run(next, input) IN
       IF next_result.thrown THEN Taint(next_result, r.oob)
       ELSE IF has_value(next_result)
       THEN Taint(empty_parse_result(input,
                    <<"Expected failure but parsed">>
                      \o fmt_value(next, value(next_result))),
                  r.oob \/ next_result.oob)
       ELSE Taint(r, next_result.oob)

and_not(self, next, input) ==
  LET r == Run(self, input) IN
  IF r.thrown THEN r
  ELSE IF ~has_value(r) THEN Taint(empty_parse_result(input, r.error), r.oob)
  ELSE LET next_result == Run(next, r.input) IN
       IF next_result.thrown THEN Taint(next_result, r.oob)
       ELSE IF has_value(next_result)
       THEN Taint(empty_parse_result(input,
                    <<"Expected failure but parsed">>
                      \o fmt_value(next, value(next_result))),
                  r.oob \/ next_result.oob)
       ELSE Taint(r, next_result.oob)

\* transform handing back the input it was given as the remainder.
transform_at_start(self, fn, input) ==
  LET r == Run(self, input) IN
  IF r.thrown THEN r
  ELSE IF ~has_value(r) THEN Taint(empty_parse_result(input, r.error), r.oob)
  ELSE Taint(make_parse_result(apply_fn(fn, value(r)), input), r.oob)

transform(self, fn, input) ==
  LET r == Run(self, input) IN
  IF r.thrown THEN r
  ELSE IF ~has_value(r) THEN Taint(empty_parse_result(input, r.error), r.oob)
  ELSE Taint(make_parse_result(apply_fn(fn, value(r)), r.input), r.oob)

\* skip checking next without consuming what it matched.
parser_impl_skip_lookahead(parser, next, input) ==
  LET r == Run(parser, input) IN
  IF r.thrown THEN r
  ELSE IF ~has_value(r) THEN Taint(empty_parse_result(input, r.error), r.oob)
  ELSE LET next_result == Run(next, r.input) IN
       IF next_result.thrown THEN Taint(next_result, r.oob)
       ELSE IF ~has_value(next_result)
       THEN Taint(empty_parse_result(r.input, next_result.error),
                  r.oob \/ next_result.oob)
       ELSE Taint(make_parse_result(value(r), r.input),
                  r.oob \/ next_result.oob)

\* detail::parser_impl<T>::skip
parser_impl_skip(parser, next, input) ==
  LET r == Run(parser, input) IN
  IF r.thrown THEN r
  ELSE IF ~has_value(r) THEN Taint(empty_parse_result(input, r.error), r.oob)
  ELSE LET next_result == Run(next, r.input) IN
       IF next_result.thrown THEN Taint(next_result, r.oob)
       ELSE IF ~has_value(next_result)
       THEN Taint(empty_parse_result(r.input, next_result.error),
                  r.oob \/ next_result.oob)
       ELSE Taint(make_parse_result(value(r), next_result.input),
                  r.oob \/ next_result.oob)

\* Parser<T>::skip, with detail::parser_impl<std::string_view>::skip for a
\* StringParser.
skip(parser, next, input) ==
  IF IsStringParser(parser)
  THEN parser_impl_skip(Transform(parser, to_discontinuous), next, input)
  ELSE parser_impl_skip(parser, next, input)

parse_digit(first, last, input) ==
  transform(CharClass0([first |-> first, last |-> last, cls |-> "digit"]),
            digit_value, input)

----------------------------------------------------------------------------
(* Repetition.  Each loop is given by its locals at entry and by one trip  *)
(* through `while (!input.empty()) { ... }`: a trip either returns from    *)
(* the lambda (done, with ret) or falls through to the next trip with new  *)
(* locals l.  An exception leaving the item parser leaves the loop.        *)

Return(l, r) == [l |-> l, done |-> TRUE, ret |-> Taint(r, l.oob)]

Continue(l) == [l |-> l, done |-> FALSE, ret |-> parse_never(Whole)]

\* parse_some (generic): std::vector<T> results; the parameter input is the
\* loop variable.
some_entry(input) == [input |-> input, oob |-> FALSE, results |-> <<>>]

\* parse_some (generic) stopping at max matches instead of failing.
some_trip_stopping(parser, max, l) ==
  IF empty(l.input) THEN Return(l, make_parse_result(l.results, l.input))
  ELSE LET r == Run(parser, l.input) IN
       IF r.thrown THEN Return(l, r)
       ELSE IF ~has_value(r)
       THEN Return([l EXCEPT !.oob = @ \/ r.oob],
                   make_parse_result(l.results, l.input))
       ELSE IF max # <<>> /\ Len(l.results) = max[1]
       THEN Return([l EXCEPT !.oob = @ \/ r.oob],
                   make_parse_result(l.results, l.input))
       ELSE Continue([input |-> r.input, oob |-> l.oob \/ r.oob,
                      results |-> Append(l.results, value(r))])

some_trip(parser, max, l) ==
  IF empty(l.input) THEN Return(l, make_parse_result(l.results, l.input))
  ELSE LET r == Run(parser, l.input) IN
       IF r.thrown THEN Return(l, r)
       ELSE IF ~has_value(r)
       THEN Return([l EXCEPT !.oob = @ \/ r.oob],
                   make_parse_result(l.results, l.input))
       ELSE IF max # <<>> /\ Len(l.results) = max[1]
       THEN Return([l EXCEPT !.oob = @ \/ r.oob],
                   empty_parse_result(l.input,
                     <<"Error: parsed more than", ToString(max[1]),
                       "reults">>))
       ELSE Continue([input |-> r.input, oob |-> l.oob \/ r.oob,
                      results |-> Append(l.results, value(r))])

RECURSIVE some_loop(_, _, _)
some_loop(parser, max, l) ==
  LET t == some_trip(parser, max, l) IN
  IF t.done THEN t.ret ELSE some_loop(parser, max, t.l)

parse_some(parser, max, input) == some_loop(parser, max, some_entry(input))

\* parse_n (generic)
parse_n(parser, min, max, input) ==
  and_then_fn(Some(parser, max), check_min(min), input)

\* parse_some (StringParser)
some_sv_entry(input) ==
  [oob |-> FALSE, size |-> 0, count |-> 0, inp |-> input]

\* parse_some (StringParser) refusing an empty match, as one-or-more would.
some_sv_trip_nonempty(parser, max, input, l) ==
  LET exit == IF l.count = 0
              THEN empty_parse_result(input, <<"Error: no match">>)
              ELSE make_parse_result(substr(input, 0, l.size), l.inp) IN
  IF empty(l.inp) THEN Return(l, exit)
  ELSE LET r == Run(parser, l.inp) IN
       IF r.thrown THEN Return(l, r)
       ELSE IF ~has_value(r) THEN Return([l EXCEPT !.oob = @ \/ r.oob], exit)
       ELSE IF max # <<>> /\ l.count = max[1]
       THEN Return([l EXCEPT !.oob = @ \/ r.oob],
                   empty_parse_result(input,
                     <<"Error: parsed more than", ToString(max[1]),
                       "results">>))
       ELSE Continue([oob |-> l.oob \/ r.oob, size |-> l.size + value(r).len,
                      count |-> l.count + 1, inp |-> r.input])

\* parse_some (StringParser) keeping the size of the last match only.
some_sv_trip_last_size(parser, max, input, l) ==
  IF empty(l.inp)
  THEN Return(l, make_parse_result(substr(input, 0, l.size), l.inp))
  ELSE LET r == Run(parser, l.inp) IN
       IF r.thrown THEN Return(l, r)
       ELSE IF ~has_value(r)
       THEN Return([l EXCEPT !.oob = @ \/ r.oob],
                   make_parse_result(substr(input, 0, l.size), l.inp))
       ELSE IF max # <<>> /\ l.count = max[1]
       THEN Return([l EXCEPT !.oob = @ \/ r.oob],
                   empty_parse_result(input,
                     <<"Error: parsed more than", ToString(max[1]),
                       "results">>))
       ELSE Continue([oob |-> l.oob \/ r.oob, size |-> value(r).len,
                      count |-> l.count + 1, inp |-> r.input])

some_sv_trip(parser, max, input, l) ==
  IF empty(l.inp)
  THEN Return(l, make_parse_result(substr(input, 0, l.size), l.inp))
  ELSE LET r == Run(parser, l.inp) IN
       IF r.thrown THEN Return(l, r)
       ELSE IF ~has_value(r)
       THEN Return([l EXCEPT !.oob = @ \/ r.oob],
                   make_parse_result(substr(input, 0, l.size), l.inp))
       ELSE IF max # <<>> /\ l.count = max[1]
       THEN Return([l EXCEPT !.oob = @ \/ r.oob],
                   empty_parse_result(input,
                     <<"Error: parsed more than", ToString(max[1]),
                       "results">>))
       ELSE Continue([oob |-> l.oob \/ r.oob, size |-> l.size + value(r).len,
                      count |-> l.count + 1, inp |-> r.input])

RECURSIVE some_sv_loop(_, _, _, _)
some_sv_loop(parser, max, input, l) ==
  LET t == some_sv_trip(parser, max, input, l) IN
  IF t.done THEN t.ret ELSE some_sv_loop(parser, max, input, t.l)

parse_some_sv(parser, max, input) ==
  some_sv_loop(parser, max, input, some_sv_entry(input))

\* parse_n (StringParser) handing back the value as the remainder and the
\* remainder as the value.
n_sv_exit_swapped(min, input, l) ==
  IF l.count < min
  THEN empty_parse_result(l.inp,
         <<"Error: expected", ToString(min), "occurences but only saw",
           ToString(l.count), "Inner:">> \o l.error)
  ELSE IF substr_throws(input, l.pos) THEN out_of_range(input)
  ELSE make_parse_result(substr_from(input, l.pos), substr(input, 0, l.pos))

\* parse_n (StringParser): the statements after the loop.
n_sv_exit(min, input, l) ==
  IF l.count < min
  THEN empty_parse_result(l.inp,
         <<"Error: expected", ToString(min), "occurences but only saw",
           ToString(l.count), "Inner:">> \o l.error)
  ELSE IF substr_throws(input, l.pos) THEN out_of_range(input)
  ELSE make_parse_result(substr(input, 0, l.pos), substr_from(input, l.pos))

n_sv_entry(input) ==
  [pos |-> 0, error |-> <<>>, oob |-> FALSE, count |-> 0, inp |-> input]

n_sv_trip(parser, min, max, input, l) ==
  IF empty(l.inp) THEN Return(l, n_sv_exit(min, input, l))
  ELSE LET r == Run(parser, l.inp) IN
       IF r.thrown THEN Return(l, r)
       ELSE IF ~has_value(r)
       THEN Return([l EXCEPT !.oob = @ \/ r.oob],
                   n_sv_exit(min, input, [l EXCEPT !.error = r.error]))
       ELSE IF max # <<>> /\ l.count = max[1]
       THEN Return([l EXCEPT !.oob = @ \/ r.oob],
                   empty_parse_result(r.input,
                     <<"Error: parsed more than", ToString(max[1]),
                       "results">>))
       ELSE Continue([pos |-> l.pos + value(r).len, error |-> l.error,
                      oob |-> l.oob \/ r.oob, count |-> l.count + 1,
                      inp |-> r.input])

RECURSIVE n_sv_loop(_, _, _, _, _)
n_sv_loop(parser, min, max, input, l) ==
  LET t == n_sv_trip(parser, min, max, input, l) IN
  IF t.done THEN t.ret ELSE n_sv_loop(parser, min, max, input, t.l)

parse_n_sv(parser, min, max, input) ==
  n_sv_loop(parser, min, max, input, n_sv_entry(input))

\* parse_sequence: `for (auto parser : ps)`, l being the locals before the
\* parsers ps that are still to run.
RECURSIVE sequence_loop(_, _, _)
sequence_loop(ps, input, l) ==
  IF ps = <<>>
  THEN Taint(IF substr_throws(input, l.count) THEN out_of_range(input)
             ELSE make_parse_result(substr(input, 0, l.count),
                                    substr_from(input, l.count)),
             l.oob)
  ELSE IF empty(input)
  THEN Taint(empty_parse_result(l.inp, <<"Error: reached end of input.">>),
             l.oob)
  ELSE LET r == Run(Head(ps), l.inp) IN
       IF r.thrown \/ ~has_value(r) THEN Taint(r, l.oob)
       ELSE sequence_loop(Tail(ps), input,
                          [oob |-> l.oob \/ r.oob,
                           count |-> l.count + value(r).len,
                           inp |-> r.input])

parse_sequence(ps, input) ==
  sequence_loop(ps, input, [oob |-> FALSE, count |-> 0, inp |-> input])

----------------------------------------------------------------------------
(* Delimiter-driven lists.                                                 *)

\* parse_delimited_by handing back what the terminator left, not what the
\* last item left.
parse_delimited_by_consuming(parser, delimiter, terminator, input) ==
  LET tokens_result == Run(Some(Skip(parser, delimiter), <<>>), input) IN
  IF tokens_result.thrown THEN tokens_result
  ELSE IF ~has_value(tokens_result)
  THEN empty_parse_result(input, tokens_result.error)
  ELSE LET last_token_result == Run(parser, tokens_result.input) IN
       IF last_token_result.thrown THEN last_token_result
       ELSE IF ~has_value(last_token_result)
       THEN empty_parse_result(tokens_result.input, last_token_result.error)
       ELSE LET term_result == Run(terminator, last_token_result.input) IN
            IF term_result.thrown THEN term_result
            ELSE IF ~has_value(term_result)
            THEN empty_parse_result(term_result.input, term_result.error)
            ELSE make_parse_result(
                   Append(value(tokens_result), value(last_token_result)),
                   term_result.input)

parse_delimited_by(parser, delimiter, terminator, input) ==
  LET tokens_result == Run(Some(Skip(parser, delimiter), <<>>), input) IN
  IF tokens_result.thrown THEN tokens_result
  ELSE IF ~has_value(tokens_result)
  THEN Taint(empty_parse_result(input, tokens_result.error),
             tokens_result.oob)
  ELSE LET last_token_result == Run(parser, tokens_result.input) IN
       IF last_token_result.thrown
       THEN Taint(last_token_result, tokens_result.oob)
       ELSE IF ~has_value(last_token_result)
       THEN Taint(empty_parse_result(tokens_result.input,
                                     last_token_result.error),
                  tokens_result.oob \/ last_token_result.oob)
       ELSE LET term_result == Run(terminator, last_token_result.input) IN
            IF term_result.thrown
            THEN Taint(term_result,
                       tokens_result.oob \/ last_token_result.oob)
            ELSE IF ~has_value(term_result)
            THEN Taint(empty_parse_result(term_result.input,
                                          term_result.error),
                       tokens_result.oob \/ last_token_result.oob
                         \/ term_result.oob)
            ELSE Taint(make_parse_result(
                         Append(value(tokens_result),
                                value(last_token_result)),
                         last_token_result.input),
                       tokens_result.oob \/ last_token_result.oob
                         \/ term_result.oob)

----------------------------------------------------------------------------
(* Parser<T>::operator(): the call of the stored std::function.            *)

Run(p, input) ==
  CASE p.op = "literal" -> parse_literal(p.ch, input)
    [] p.op = "range" -> parse_range(p.first, p.last, input)
    [] p.op = "str" -> parse_str(p.str, input)
    [] p.op = "any_of" -> parse_any_of(p.str, input)
    [] p.op = "none_of" -> parse_none_of(p.str, input)
    [] p.op = "any" -> parse_any(input)
    [] p.op = "digit" -> parse_digit(p.first, p.last, input)
    [] p.op = "char_class" -> parse_char_class(p.m, input)
    [] p.op = "end" -> parse_end(input)
    [] p.op = "not" -> parse_not(p.parser, input)
    [] p.op = "never" -> parse_never(input)
    [] p.op = "pure" -> pure(p.value, input)
    [] p.op = "opt" -> parse_opt(p.parser, input)
    [] p.op = "or_else" -> or_else(p.self, p.parser, input)
    [] p.op = "and_then" -> and_then(p.self, p.next, input)
    [] p.op = "and_then_fn" -> and_then_fn(p.self, p.fn, input)
    [] p.op = "and_not" -> and_not(p.self, p.next, input)
    [] p.op = "skip" -> skip(p.parser, p.next, input)
    [] p.op = "transform" -> transform(p.self, p.fn, input)
    [] p.op = "some" -> parse_some(p.parser, p.max, input)
    [] p.op = "n" -> parse_n(p.parser, p.min, p.max, input)
    [] p.op = "some_sv" -> parse_some_sv(p.parser, p.max, input)
    [] p.op = "n_sv" -> parse_n_sv(p.parser, p.min, p.max, input)
    [] p.op = "delimited_by" ->
         parse_delimited_by(p.parser, p.delimiter, p.terminator, input)
    [] p.op = "sequence" -> parse_sequence(p.ps, input)
    [] p.op = "ref" -> Run(cells[p.cell], input)
    [] p.op = "recursive" -> Run(cells[p.cell], input)

----------------------------------------------------------------------------
(* Parsers composed from the library.                                      *)

\* Parser<T>::as
As(self, v) == Transform(self, as_value(v))

parse_opt_ws == As(SomeSv(CharClass("space"), <<>>), "unit")

parse_ws == As(NSv(CharClass("space"), 1, <<>>), "unit")

\* Parser<T>::trim leaving the whitespace behind the match in place.
Trim_leading(self) == Skip(AndThen(parse_opt_ws, self), Pure("unit"))

\* Parser<T>::trim
Trim(self) == Skip(AndThen(parse_opt_ws, self), parse_opt_ws)

\* parsers::number()
positive_number == AndThenFn(Digit(1, 9), positive_tail)

zero == AndNot(Digit(0, 0), Digit(0, 9))

number ==
  OrElse(OrElse(positive_number, zero),
         Transform(AndThen(Literal("-"), positive_number), negate))

----------------------------------------------------------------------------
(* Recursive parsers.  A builder is given the heap and the cell its        *)
(* argument refers to, and returns the parser it built together with the   *)
(* heap it left: parse_ref(arg) holds the reference, every other use of    *)
(* arg copies the Parser<T> the cell holds while the builder runs.         *)

\* The cells of the heap; Null stands for a cell not allocated.
Cells == {"expr", "term"}

Null == [op |-> "null"]

Built(parser, heap) == [parser |-> parser, heap |-> heap]

\* std::make_shared<Parser<T>>(parse_never<T>())
make_shared(heap, cell) == [heap EXCEPT ![cell] = Never]

RECURSIVE parse_recursive(_, _, _)

\* The builder of TEST(ParserTest, RecursiveParser).
paren_term(heap, term) ==
  Built(OrElse(number,
               Skip(AndThen(Literal("("), Ref(term)), Literal(")"))),
        heap)

\* The same grammar, the builder handing its argument to and_then as it is.
paren_term_by_value(heap, term) ==
  Built(OrElse(number,
               Skip(AndThen(Literal("("), heap[term]), Literal(")"))),
        heap)

\* The inner builder of TEST(ParserTest, Expression), which holds a copy
\* of parse_factor.
term_builder(parse_factor, heap, term) ==
  Built(OrElse(AndThenFn(Skip(parse_factor, Literal("*")), times_ref(term)),
               parse_factor),
        heap)

\* The builder of TEST(ParserTest, Expression).
expression(heap, expr) ==
  LET parse_factor ==
        OrElse(number, Skip(AndThen(Literal("("), Ref(expr)), Literal(")")))
      parse_term ==
        parse_recursive([parser |-> parse_factor, f |-> "term_builder"],
                        heap, "term") IN
  Built(OrElse(AndThenFn(Skip(parse_term.parser, Literal("+")),
                         plus_ref(expr)),
               parse_term.parser),
        parse_term.heap)

\* make_parser(*parser_ptr), for the builder fn given to parse_recursive.
make_parser(fn, heap, cell) ==
  CASE fn.f = "paren_term" -> paren_term(heap, cell)
    [] fn.f = "paren_term_by_value" -> paren_term_by_value(heap, cell)
    [] fn.f = "term_builder" -> term_builder(fn.parser, heap, cell)
    [] fn.f = "expression" -> expression(heap, cell)

parse_recursive(fn, heap, cell) ==
  LET made == make_parser(fn, make_shared(heap, cell), cell) IN
  Built(Recursive(cell), [made.heap EXCEPT ![cell] = made.parser])

----------------------------------------------------------------------------
(* The parsers a caller builds and invokes.                                *)

LitChars == {"a", "x", ",", ";"}

CharSets == { <<"a", "b">>, <<"x">>, <<"a", "b", "c", "d">> }

\* StringParser values used as operands of the combinators.
SvItems ==
  { Literal("a"), Literal("x"), Range("a", "z"), AnyOf(<<"a", "b">>),
    NoneOf(<<"x">>), Str(<<"a", "b">>), AndThen(Literal("a"), Literal("b")),
    AndThen(Literal("a"), NoneOf(<<"x">>)), Not(Literal("x")),
    SomeSv(AnyOf(<<"a", "b">>), <<>>) }

\* Parser<T> values with T other than std::string_view.
GenItems ==
  { Skip(AnyOf(<<"a", "b">>), Literal(",")),
    Transform(Literal("a"), to_discontinuous),
    Transform(AndThen(Literal("a"), Literal("b")), to_discontinuous),
    Digit(0, 9) }

ListItems ==
  { NSv(AnyOf(<<"a", "b", "c", "d">>), 1, <<2>>),
    NSv(AnyOf(<<"a", "b">>), 1, <<>>),
    AnyOf(<<"a", "b">>) }

Terminators == { Literal(";"), EndOfInput }

\* Parsers given as the second operand of and_then and skip.
NextItems ==
  { Literal("b"), NoneOf(<<"x">>), EndOfInput,
    SomeSv(AnyOf(<<"a", "b">>), <<>>),
    Skip(AnyOf(<<"a", "b">>), Literal(",")) }

\* StringParser values of one character, whose value a callback may read.
CharItems == { Range("a", "z"), Literal("a"), AnyOf(<<"a", "b">>) }

\* Lists given to parse_sequence.
Sequences ==
  { <<Literal("a"), Literal("b")>>,
    <<AnyOf(<<"a", "b">>), Literal(","), AnyOf(<<"a", "b">>)>>,
    <<Literal("a"), NoneOf(<<"x">>)>>,
    <<AndThen(Literal("a"), Literal("b")), Literal("x")>>,
    <<SomeSv(AnyOf(<<"a", "b">>), <<>>), Literal(";")>> }

\* The parser of TEST(ParserTest, ParseHelloWorld).
HelloWorld ==
  AndThen(Skip(AndThen(Skip(Str(<<"h", "e", "l", "l", "o">>), parse_opt_ws),
                       Str(<<",">>)),
               parse_opt_ws),
          Str(<<"w", "o", "r", "l", "d">>))

Maxes == { <<>>, <<1>>, <<2>> }

Mins == 0..2

NoCall == [op |-> "none"]

NoFrame == [count |-> 0]

NoResult ==
  [result |-> <<>>, input |-> [off |-> 0, len |-> 0], error |-> <<>>,
   thrown |-> FALSE, oob |-> FALSE]

\* The threads that invoke a shared parser.
Threads == {1, 2}

NoThreads ==
  [t \in Threads |->
     [pc |-> "idle", frame |-> NoFrame, result |-> NoResult,
      input |-> [off |-> 0, len |-> 0]]]

----------------------------------------------------------------------------
(* The state machine: a caller holding the buffer invokes one parser on    *)
(* the whole of it.                                                        *)

Init ==
  /\ buf \in Inputs
  /\ past \in PastBytes
  /\ pc = "idle"
  /\ call = NoCall
  /\ frame = NoFrame
  /\ result = NoResult
  /\ cells = [cell \in Cells |-> Null]
  /\ again = NoResult
  /\ threads = NoThreads

\* parser(input) for a parser whose call is one step.
Invoke(p) ==
  /\ pc = "idle"
  /\ call' = p
  /\ result' = Run(p, Whole)
  /\ pc' = "done"
  /\ UNCHANGED <<buf, past, frame, cells, again, threads>>

\* parser(input) entering the loop of a repetition.
Enter(p, l) ==
  /\ pc = "idle"
  /\ call' = p
  /\ frame' = l
  /\ pc' = p.op
  /\ UNCHANGED <<buf, past, result, cells, again, threads>>

\* One trip t of the loop of the repetition being run.
Trip(t) ==
  /\ frame' = t.l
  /\ IF t.done THEN result' = t.ret /\ pc' = "done"
     ELSE UNCHANGED <<result, pc>>
  /\ UNCHANGED <<buf, past, call, cells, again, threads>>

LiteralCall == \E ch \in LitChars : Invoke(Literal(ch))

RangeCall == Invoke(Range("a", "z"))

StrCall == \E str \in CharSets : Invoke(Str(str))

AnyOfCall == \E str \in CharSets : Invoke(AnyOf(str))

NoneOfCall == \E str \in CharSets : Invoke(NoneOf(str))

AnyCall == Invoke(AnyChar)

DigitCall == \E last \in {0, 9} : Invoke(Digit(0, last))

CharClassCall == \E cls \in {"alpha", "alnum", "space"} : Invoke(CharClass(cls))

EndCall == Invoke(EndOfInput)

NotCall == \E p \in {Literal("x"), AnyOf(<<"a", "b">>), AnyChar} : Invoke(Not(p))

OrElseCall == \E a, b \in SvItems : Invoke(OrElse(a, b))

AndNotCall == \E a, b \in SvItems : Invoke(AndNot(a, b))

\* The items are those of the generic tests and two that can succeed
\* without consuming input.
SomeCall ==
  \E p \in GenItems \cup { Pure(7), Opt(Literal("a")) }, max \in Maxes :
     Enter(Some(p, max), some_entry(Whole))

SomeTrip ==
  /\ pc = "some"
  /\ Len(frame.results) < MaxIter
  /\ Trip(some_trip(call.parser, call.max, frame))

NCall == \E p \in GenItems, min \in Mins, max \in Maxes : Invoke(N(p, min, max))

SomeSvCall ==
  \E p \in SvItems, max \in Maxes :
     Enter(SomeSv(p, max), some_sv_entry(Whole))

SomeSvTrip ==
  /\ pc = "some_sv"
  /\ frame.count < MaxIter
  /\ Trip(some_sv_trip(call.parser, call.max, Whole, frame))

NSvCall ==
  \E p \in SvItems, min \in Mins, max \in Maxes :
     Enter(NSv(p, min, max), n_sv_entry(Whole))

NSvTrip ==
  /\ pc = "n_sv"
  /\ frame.count < MaxIter
  /\ Trip(n_sv_trip(call.parser, call.min, call.max, Whole, frame))

DelimitedByCall ==
  \E item \in ListItems, term \in Terminators :
     Invoke(DelimitedBy(item, Literal(","), term))

AndThenCall ==
  \/ \E a \in SvItems, b \in NextItems : Invoke(AndThen(a, b))
  \/ Invoke(HelloWorld)

SkipCall ==
  \E a \in SvItems \cup GenItems, b \in NextItems : Invoke(Skip(a, b))

TransformCall ==
  \/ \E a \in CharItems, fn \in {hexit_value, to_discontinuous} :
        Invoke(Transform(a, fn))
  \/ \E a \in SvItems : Invoke(As(a, "unit"))
  \/ \E a \in GenItems : Invoke(As(a, 7))

SequenceCall == \E ps \in Sequences : Invoke(Sequence(ps))

Next ==
  \/ LiteralCall
  \/ RangeCall
  \/ StrCall
  \/ AnyOfCall
  \/ NoneOfCall
  \/ AnyCall
  \/ DigitCall
  \/ CharClassCall
  \/ EndCall
  \/ NotCall
  \/ OrElseCall
  \/ AndNotCall
  \/ SomeCall
  \/ SomeTrip
  \/ NCall
  \/ SomeSvCall
  \/ SomeSvTrip
  \/ NSvCall
  \/ NSvTrip
  \/ DelimitedByCall
  \/ AndThenCall
  \/ SkipCall
  \/ TransformCall
  \/ SequenceCall

Spec == Init /\ [][Next]_vars

----------------------------------------------------------------------------
(* The state machine of the number and expression parsers: the caller      *)
(* builds a parser, recursive ones through parse_recursive, invokes it on  *)
(* the whole buffer and invokes it on the same buffer once more.           *)

InitArith ==
  /\ buf \in ArithInputs
  /\ past \in ArithPast
  /\ pc = "idle"
  /\ call = NoCall
  /\ frame = NoFrame
  /\ result = NoResult
  /\ cells = [cell \in Cells |-> Null]
  /\ again = NoResult
  /\ threads = NoThreads

\* parse_recursive<int>(builder) has returned built.parser and left
\* built.heap.
Construct(built) ==
  /\ pc = "idle"
  /\ cells' = built.heap
  /\ call' = built.parser
  /\ pc' = "built"
  /\ UNCHANGED <<buf, past, frame, result, again, threads>>

ParenTermCall ==
  Construct(parse_recursive([f |-> "paren_term"], cells, "term"))

ParenTermByValueCall ==
  Construct(parse_recursive([f |-> "paren_term_by_value"], cells, "term"))

ExpressionCall ==
  Construct(parse_recursive([f |-> "expression"], cells, "expr"))

\* The returned closure giving up its cell once it has been called.
InvokeBuilt_untying ==
  /\ pc = "built"
  /\ result' = Run(call, Whole)
  /\ pc' = "done"
  /\ cells' = [cells EXCEPT ![call.cell] = Never]
  /\ UNCHANGED <<buf, past, call, frame, again, threads>>

\* parser(input) for the parser parse_recursive returned.
InvokeBuilt ==
  /\ pc = "built"
  /\ result' = Run(call, Whole)
  /\ pc' = "done"
  /\ UNCHANGED <<buf, past, call, frame, cells, again, threads>>

NumberCall == Invoke(number)

\* Parser<int> values given to and_then with a callback.
IntItems == { Digit(1, 9), Digit(0, 9), number, As(Literal("-"), 1) }

BindCall ==
  \/ \E a \in IntItems : Invoke(AndThenFn(a, positive_tail))
  \/ \E max \in Maxes, min \in Mins :
        Invoke(AndThenFn(Some(Digit(0, 9), max), check_min(min)))

\* A second call that puts the placeholder back into the cell of the
\* parser it runs.
Again_retying ==
  /\ pc = "done"
  /\ again' = Run(call, Whole)
  /\ pc' = "again"
  /\ cells' = IF call.op = "recursive"
              THEN [cells EXCEPT ![call.cell] = Never]
              ELSE cells
  /\ UNCHANGED <<buf, past, call, frame, result, threads>>

\* parser(input) a second time, for the same parser and the same input.
Again ==
  /\ pc = "done"
  /\ again' = Run(call, Whole)
  /\ pc' = "again"
  /\ UNCHANGED <<buf, past, call, frame, result, cells, threads>>

NextArith ==
  \/ ParenTermCall
  \/ ParenTermByValueCall
  \/ ExpressionCall
  \/ InvokeBuilt
  \/ NumberCall
  \/ BindCall
  \/ Again

SpecArith == InitArith /\ [][NextArith]_vars

----------------------------------------------------------------------------
(* Vocabulary of the properties.                                           *)

\* The two outcomes agree in everything a caller can observe.
Same(r1, r2) ==
  /\ r1.thrown = r2.thrown
  /\ r1.result = r2.result
  /\ r1.input = r2.input
  /\ r1.error = r2.error

\* The call returned a failure (it did not succeed and did not throw).
Failed(r) == ~has_value(r) /\ ~r.thrown

Done(op) == pc = "done" /\ call.op = op

\* C1: or_else(a,b)(s) is exactly a(s) when a succeeds on s (b has no part
\* in it: nothing b would read or throw shows), and when a fails it is
\* b(s), b being run on the original input s.
C1_OrElseLeftBias ==
  Done("or_else") =>
    LET a == Run(call.self, Whole) IN
    /\ has_value(a) => result = a
    /\ Failed(a) => Same(result, Run(call.parser, Whole))

\* a gave up behind the start of the input, and b then succeeded.
C1_Witness ==
  /\ Done("or_else")
  /\ Failed(Run(call.self, Whole))
  /\ Run(call.self, Whole).input # Whole
  /\ has_value(result)

\* C2: literal(c)(s) succeeds iff s is non-empty and starts with c; the
\* value is that one character and the remainder is s without it; a
\* failure, also on the empty s, reports s unchanged.
C2_Literal ==
  Done("literal") =>
    LET hit == Len(buf) > 0 /\ buf[1] = call.ch IN
    /\ ~result.thrown
    /\ has_value(result) <=> hit
    /\ hit => /\ value(result) = [off |-> 0, len |-> 1]
              /\ result.input = [off |-> 1, len |-> Len(buf) - 1]
    /\ ~hit => result.input = Whole

\* literal(c) on the empty input, the byte behind the buffer being c.
C2_Witness ==
  /\ Done("literal")
  /\ buf = <<>>
  /\ past = call.ch
  /\ Failed(result)

\* C3: some(p) without a maximum never returns a failure, and the
\* remainder it reports is no longer than the input.
C3_SomeTotal ==
  (pc = "done" /\ call.op \in {"some", "some_sv"} /\ call.max = <<>>) =>
    /\ ~Failed(result)
    /\ result.input.len <= Len(buf)

\* some(p) returning on a non-empty input on which p matched nothing.
C3_Witness ==
  /\ Done("some_sv")
  /\ call.max = <<>>
  /\ buf # <<>>
  /\ frame.count = 0
  /\ has_value(result)
  /\ result.input = Whole

----------------------------------------------------------------------------
(* The state machine of the threads that share a parser: the parser is     *)
(* built once, then each thread invokes it on a view of the buffer; the    *)
(* trips of the loops of the threads interleave.                           *)

InitConc ==
  /\ buf \in ConcInputs
  /\ past \in ArithPast
  /\ pc = "idle"
  /\ call = NoCall
  /\ frame = NoFrame
  /\ result = NoResult
  /\ cells = [cell \in Cells |-> Null]
  /\ again = NoResult
  /\ threads = NoThreads

\* The construction of a parser without a cell has completed.
Share(p) ==
  /\ pc = "idle"
  /\ call' = p
  /\ pc' = "built"
  /\ UNCHANGED <<buf, past, frame, result, cells, again, threads>>

\* The parsers without a cell that the threads share.
ShareCall ==
  \E p \in { SomeSv(Range("0", "9"), <<>>), NSv(Range("0", "9"), 1, <<2>>),
              Some(Digit(0, 9), <<1>>), number } : Share(p)

IsLoop(p) == p.op \in {"some", "some_sv", "n_sv"}

\* The locals of the loop of p at its entry.
loop_entry(p, input) ==
  CASE p.op = "some" -> some_entry(input)
    [] p.op = "some_sv" -> some_sv_entry(input)
    [] p.op = "n_sv" -> n_sv_entry(input)
    [] OTHER -> NoFrame

\* One trip of the loop of p.
loop_trip(p, input, l) ==
  CASE p.op = "some" -> some_trip(p.parser, p.max, l)
    [] p.op = "some_sv" -> some_sv_trip(p.parser, p.max, input, l)
    [] p.op = "n_sv" -> n_sv_trip(p.parser, p.min, p.max, input, l)

\* The trips the loop of p has completed.
loop_count(p, l) == IF p.op = "some" THEN Len(l.results) ELSE l.count

\* Thread t calls parser(input), the input being the buffer or the
\* buffer behind its first character.
ThreadEnter(t) ==
  /\ pc = "built"
  /\ threads[t].pc = "idle"
  /\ \E input \in {Whole} \cup (IF Len(buf) >= 1
                                 THEN {substr_from(Whole, 1)} ELSE {}) :
        threads' = [threads EXCEPT ![t] =
                      [pc |-> IF IsLoop(call) THEN call.op ELSE "call",
                       frame |-> loop_entry(call, input),
                       result |-> NoResult, input |-> input]]
  /\ UNCHANGED <<buf, past, pc, call, frame, result, cells, again>>

\* What a step of its invocation makes of thread th: one trip of the loop
\* of a repetition, the whole call of any other parser.
thread_step(th) ==
  IF th.pc = "call"
  THEN [pc |-> "done", frame |-> th.frame, result |-> Run(call, th.input),
        input |-> th.input]
  ELSE LET trip == loop_trip(call, th.input, th.frame) IN
       [pc |-> IF trip.done THEN "done" ELSE th.pc, frame |-> trip.l,
        result |-> IF trip.done THEN trip.ret ELSE th.result,
        input |-> th.input]

\* A step of thread t whose loop keeps its locals in storage shared by
\* the invocations.
ThreadStep_shared_locals(t) ==
  /\ threads[t].pc \notin {"idle", "done"}
  /\ IsLoop(call) => loop_count(call, threads[t].frame) < MaxIter
  /\ threads' =
       [u \in Threads |->
          IF u = t THEN thread_step(threads[t])
          ELSE IF threads[u].pc = threads[t].pc
          THEN [threads[u] EXCEPT !.frame = thread_step(threads[t]).frame]
          ELSE threads[u]]
  /\ UNCHANGED <<buf, past, pc, call, frame, result, cells, again>>

\* A step of the invocation of thread t.
ThreadStep(t) ==
  /\ threads[t].pc \notin {"idle", "done"}
  /\ IsLoop(call) => loop_count(call, threads[t].frame) < MaxIter
  /\ threads' = [threads EXCEPT ![t] = thread_step(threads[t])]
  /\ UNCHANGED <<buf, past, pc, call, frame, result, cells, again>>

NextConc ==
  \/ ShareCall
  \/ ExpressionCall
  \/ \E t \in Threads : ThreadEnter(t)
  \/ \E t \in Threads : ThreadStep(t)

SpecConc == InitConc /\ [][NextConc]_vars

----------------------------------------------------------------------------
(* The state machine of the trimmed parsers: the caller invokes trim() of  *)
(* a parser on a buffer that holds whitespace.                             *)

InitTrim ==
  /\ buf \in TrimInputs
  /\ past \in PastBytes
  /\ pc = "idle"
  /\ call = NoCall
  /\ frame = NoFrame
  /\ result = NoResult
  /\ cells = [cell \in Cells |-> Null]
  /\ again = NoResult
  /\ threads = NoThreads

\* trim() of a StringParser, invoked.
TrimCall ==
  \E a \in { Literal("a"), Str(<<"a", "x">>), NoneOf(<<"x">>),
              SomeSv(Range("a", "z"), <<>>),
              NSv(AnyOf(<<"a", "x">>), 1, <<2>>) } : Invoke(Trim(a))

SpecTrim == InitTrim /\ [][TrimCall]_vars

----------------------------------------------------------------------------
(* Consecutive matches of an item parser, taken one behind the other from  *)
(* the start of a view: the outcomes of the successful applications.       *)

RECURSIVE MatchChain(_, _, _)
MatchChain(p, input, n) ==
  IF n = 0 \/ empty(input) THEN <<>>
  ELSE LET r == Run(p, input) IN
       IF has_value(r) THEN <<r>> \o MatchChain(p, r.input, n - 1) ELSE <<>>

Matches(p) == MatchChain(p, Whole, MaxIter)

\* Where the k-th consecutive match ends.
After(chain, k) == IF k = 0 THEN Whole ELSE chain[k].input

\* How many matches the finished repetition took.
Taken == IF call.op = "n_sv" THEN frame.count ELSE Len(value(result))

\* C4: n(p, min, max) never takes more than max matches, max being min
\* when omitted; offered more than max consecutive matches it stops behind
\* the max-th, succeeds with exactly max matches and leaves the rest.
C4_NStopsAtMax ==
  (pc = "done" /\ call.op \in {"n_sv", "n"}) =>
    LET max == IF call.max = <<>> THEN call.min ELSE call.max[1]
        chain == Matches(call.parser) IN
    /\ has_value(result) => Taken <= max
    /\ Len(chain) > max =>
         /\ has_value(result)
         /\ Taken = max
         /\ result.input = After(chain, max)

\* C5: n(p, k), k >= 1, on exactly k consecutive matches followed by a
\* character p does not match succeeds with k results and the remainder
\* right behind the k-th match; on k-1 consecutive matches (followed by a
\* non-match or by the end of the input) it fails.
C5_NExactly ==
  (pc = "done" /\ call.op \in {"n_sv", "n"} /\ call.max = <<>>
     /\ call.min >= 1) =>
    LET k == call.min
        chain == Matches(call.parser)
        rest == After(chain, Len(chain))
        stops == empty(rest) \/ Failed(Run(call.parser, rest)) IN
    /\ (Len(chain) = k /\ ~empty(rest) /\ stops) =>
         /\ has_value(result)
         /\ Taken = k
         /\ result.input = rest
    /\ (Len(chain) = k - 1 /\ stops) => Failed(result)

AndNotGolden == AndNot(Range("a", "z"), Literal("x"))

\* C6 as stated: and_not(range('a','z'), literal('x')) succeeds on "abc"
\* with value "a" and fails on "xyz".
C6_AsStated ==
  (pc = "done" /\ call = AndNotGolden) =>
    /\ buf = <<"a", "b", "c">> =>
         has_value(result) /\ Text(value(result)) = <<"a">>
    /\ buf = <<"x", "y", "z">> => Failed(result)

\* C6 (amended): and_not(range('a','z'), literal('x')) succeeds on "abc"
\* with value "a" and succeeds on "xyz" as well, with value "x" and
\* remainder "yz": literal('x') is tried behind the character the range
\* matched, so it is an input whose second character is 'x', such as "ax",
\* that fails, with nothing consumed.
C6_AndNotGolden ==
  (pc = "done" /\ call = AndNotGolden) =>
    /\ buf = <<"a", "b", "c">> =>
         /\ has_value(result)
         /\ Text(value(result)) = <<"a">>
         /\ Text(result.input) = <<"b", "c">>
    /\ buf = <<"x", "y", "z">> =>
         /\ has_value(result)
         /\ Text(value(result)) = <<"x">>
         /\ Text(result.input) = <<"y", "z">>
    /\ buf = <<"a", "x">> => Failed(result) /\ result.input = Whole

\* The golden parser has returned on "xyz".
C6_Witness ==
  /\ pc = "done"
  /\ call = AndNotGolden
  /\ buf = <<"x", "y", "z">>

\* C7: and_not(a,b)(s) fails if a fails on s; if a succeeds it runs b on
\* a's remainder and fails when b succeeds there; otherwise it returns a's
\* success unchanged.
C7_AndNot ==
  Done("and_not") =>
    LET a == Run(call.self, Whole) IN
    /\ Failed(a) => Failed(result)
    /\ has_value(a) =>
         IF has_value(Run(call.next, a.input)) THEN Failed(result)
         ELSE Same(result, a)

PrimitiveOps ==
  {"literal", "range", "str", "any_of", "none_of", "any", "digit",
   "char_class", "end", "not"}

\* C8: every primitive matcher invoked on an empty input returns a failure
\* outcome, without reading the front character of the empty span and
\* without indexing past its end.  (end_of_input is held to the second
\* half only: on an empty input it is meant to succeed.)
C8_EmptyInput ==
  (pc = "done" /\ call.op \in PrimitiveOps /\ buf = <<>>) =>
    /\ ~result.thrown
    /\ ~result.oob
    /\ call.op # "end" => Failed(result)

----------------------------------------------------------------------------
(* Lists read off the text, without the parsers.                           *)

\* The characters an item of ListItems is made of, and how many at most
\* (0: any number).
ItemChars(item) == IF item.op = "any_of" THEN item.str ELSE item.parser.str

ItemMax(item) ==
  IF item.op = "any_of" THEN 1
  ELSE IF item.max = <<>> THEN 0 ELSE item.max[1]

\* The index in buf at which the terminator stands: the first ';', or
\* behind the last character for end_of_input.
TermAt(term) ==
  IF term.op = "end" THEN Len(buf) + 1
  ELSE IF \E i \in 1..Len(buf) : buf[i] = ";"
  THEN CHOOSE i \in 1..Len(buf) :
         buf[i] = ";" /\ \A j \in 1..(i - 1) : buf[j] # ";"
  ELSE 0

\* The pieces of buf[from .. t-1] between the commas, as views.
RECURSIVE Pieces(_, _, _)
Pieces(from, i, t) ==
  IF i = t THEN << [off |-> from - 1, len |-> i - from] >>
  ELSE IF buf[i] = ","
  THEN << [off |-> from - 1, len |-> i - from] >> \o Pieces(i + 1, i + 1, t)
  ELSE Pieces(from, i + 1, t)

\* buf is item (',' item)* followed by the terminator.
IsList(item, term) ==
  LET t == TermAt(term) IN
  /\ t >= 1
  /\ \A i \in 1..(t - 1) : buf[i] = "," \/ str_contains(ItemChars(item), buf[i])
  /\ \A k \in 1..Len(Pieces(1, 1, t)) :
       LET piece == Pieces(1, 1, t)[k] IN
       /\ piece.len >= 1
       /\ ItemMax(item) # 0 => piece.len <= ItemMax(item)

DelimitedGolden ==
  DelimitedBy(NSv(AnyOf(<<"a", "b", "c", "d">>), 1, <<2>>), Literal(","),
              Literal(";"))

GoldenList == <<"a", ",", "b", "c", ",", "d", ";">>

\* C9: delimited_by(item, delimiter, terminator) on an input of the form
\* item (delimiter item)* terminator succeeds with the item values in input
\* order, and the remainder starts at the terminator, which is checked but
\* not consumed; "a,bc,d;" gives ["a","bc","d"] and remainder ";".
C9_DelimitedBy ==
  Done("delimited_by") =>
    /\ IsList(call.parser, call.terminator) =>
         LET t == TermAt(call.terminator) IN
         /\ has_value(result)
         /\ value(result) = Pieces(1, 1, t)
         /\ result.input = [off |-> t - 1, len |-> Len(buf) - t + 1]
    /\ (call = DelimitedGolden /\ buf = GoldenList) =>
         /\ has_value(result)
         /\ [k \in 1..Len(value(result)) |-> Text(value(result)[k])]
              = << <<"a">>, <<"b", "c">>, <<"d">> >>
         /\ Text(result.input) = <<";">>

\* The golden list has been parsed.
C9_Witness ==
  /\ pc = "done"
  /\ call = DelimitedGolden
  /\ buf = GoldenList
  /\ has_value(result)

\* The span-valued matchers of one character, and the characters each
\* accepts.
IsCharMatcher(m) ==
  \/ m.op \in {"literal", "range", "any_of", "none_of"}
  \/ m.op = "not" /\ m.parser.op = "literal"

Accepts(m, ch) ==
  CASE m.op = "literal" -> ch = m.ch
    [] m.op = "range" -> Ascii[m.first] <= Ascii[ch] /\ Ascii[ch] <= Ascii[m.last]
    [] m.op = "any_of" -> \E i \in 1..Len(m.str) : m.str[i] = ch
    [] m.op = "none_of" -> \A i \in 1..Len(m.str) : m.str[i] # ch
    [] m.op = "not" -> ch # m.parser.ch

\* The length of the run of accepted characters buf starts with.
RunLength(m) ==
  IF \A i \in 1..Len(buf) : Accepts(m, buf[i]) THEN Len(buf)
  ELSE (CHOOSE i \in 1..Len(buf) :
          ~Accepts(m, buf[i]) /\ \A j \in 1..(i - 1) : Accepts(m, buf[j])) - 1

\* C10: for a span-valued single-character matcher m and an input that is
\* a run of characters m matches followed by a tail that does not start
\* with one, some(m) returns one span equal to the whole run (not a list
\* of one-character spans) and the remainder equal to the tail.
C10_SomeCoalesces ==
  (Done("some_sv") /\ call.max = <<>> /\ IsCharMatcher(call.parser)) =>
    LET k == RunLength(call.parser) IN
    /\ has_value(result)
    /\ value(result) = [off |-> 0, len |-> k]
    /\ result.input = [off |-> k, len |-> Len(buf) - k]

\* A run of at least two matched characters and a non-empty tail.
C10_Witness ==
  /\ Done("some_sv")
  /\ call.max = <<>>
  /\ IsCharMatcher(call.parser)
  /\ has_value(result)
  /\ value(result).len >= 2
  /\ result.input.len >= 1

----------------------------------------------------------------------------
(* Recursive parsers and the grammars of the tests.                        *)

\* C11: once parse_recursive has returned, invoking the parser it returned
\* never gives the outcome of the always-failing placeholder ("Error:
\* never"), wherever the builder put its argument.
C11_NeverPlaceholder ==
  (pc = "done" /\ call.op = "recursive") =>
    ~(Failed(result) /\ result.error = <<"Error: never">>)

\* Decimal numerals read off the text, without the parsers.
DigitAt(i) == i >= 1 /\ i <= Len(buf) /\ isdigit(buf[i])

\* The index of the last digit of the run of digits that starts at i.
RECURSIVE DigitsEnd(_)
DigitsEnd(i) == IF DigitAt(i) THEN DigitsEnd(i + 1) ELSE i - 1

\* The decimal value of the digits buf[i..j].
RECURSIVE Decimal(_, _)
Decimal(i, j) ==
  IF j < i THEN 0 ELSE Decimal(i, j - 1) * 10 + (Ascii[buf[j]] - 48)

\* buf[i..j] is a canonical decimal integer: its value, in a set.
NumberVals(i, j) ==
  IF DigitAt(i) /\ DigitsEnd(i) = j /\ (buf[i] # "0" \/ j = i)
  THEN {Decimal(i, j)}
  ELSE IF i < j /\ j <= Len(buf) /\ buf[i] = "-" /\ DigitAt(i + 1)
            /\ DigitsEnd(i + 1) = j /\ buf[i + 1] # "0"
  THEN {0 - Decimal(i + 1, j)}
  ELSE {}

\* The values buf[i..j] has as an expr, a term and a factor of
\*   expr ::= term '+' expr | term,  term ::= factor '*' term | factor,
\*   factor ::= '(' expr ')' | number.
RECURSIVE ExprVals(_, _), TermVals(_, _), FactorVals(_, _)
FactorVals(i, j) ==
  NumberVals(i, j) \cup
    (IF i < j /\ buf[i] = "(" /\ buf[j] = ")" THEN ExprVals(i + 1, j - 1)
     ELSE {})

TermVals(i, j) ==
  FactorVals(i, j) \cup
    UNION { { a * b : a \in FactorVals(i, k - 1), b \in TermVals(k + 1, j) } :
            k \in { k \in (i + 1)..(j - 1) : buf[k] = "*" } }

ExprVals(i, j) ==
  TermVals(i, j) \cup
    UNION { { a + b : a \in TermVals(i, k - 1), b \in ExprVals(k + 1, j) } :
            k \in { k \in (i + 1)..(j - 1) : buf[k] = "+" } }

\* C12: the recursive parser of expr ::= term '+' expr | term,
\* term ::= factor '*' term | factor, factor ::= '(' expr ')' | number
\* evaluates every well-formed input with the usual precedence and reads
\* all of it; "1+2*8" gives 17 and "(1+2)*8" gives 24.
C12_Expression ==
  (pc = "done" /\ call = Recursive("expr")) =>
    /\ ExprVals(1, Len(buf)) # {} =>
         /\ has_value(result)
         /\ value(result) \in ExprVals(1, Len(buf))
         /\ empty(result.input)
    /\ buf = <<"1", "+", "2", "*", "8">> =>
         has_value(result) /\ value(result) = 17
    /\ buf = <<"(", "1", "+", "2", ")", "*", "8">> =>
         has_value(result) /\ value(result) = 24

\* buf starts with a canonical decimal integer.
IsCanonical ==
  \/ DigitAt(1) /\ (buf[1] # "0" \/ ~DigitAt(2))
  \/ Len(buf) >= 2 /\ buf[1] = "-" /\ DigitAt(2) /\ buf[2] # "0"

CanonicalValue ==
  IF buf[1] = "-" THEN 0 - Decimal(2, DigitsEnd(2))
  ELSE Decimal(1, DigitsEnd(1))

\* C13: the integer parser accepts at the start of the input exactly the
\* canonical decimal integers ("0" not followed by a digit, or an optional
\* '-', a digit 1-9 and any further digits) and its value is the decimal
\* value, negated behind '-'; everything else is a failure.
C13_Integer ==
  (pc = "done" /\ call = number) =>
    /\ IsCanonical => has_value(result) /\ value(result) = CanonicalValue
    /\ ~IsCanonical => Failed(result)

----------------------------------------------------------------------------
(* Sequencing and mapping.                                                 *)

\* C14: and_then(a, f) calls f only when a succeeds, with a's value, runs
\* the parser f returns on exactly a's remainder and returns its outcome;
\* when a fails the result is a failure carrying a's diagnostic, in which
\* f has no part.
C14_AndThenFn ==
  Done("and_then_fn") =>
    LET a == Run(call.self, Whole) IN
    /\ has_value(a) =>
         Same(result, Run(apply_parser_fn(call.fn, value(a)), a.input))
    /\ Failed(a) => Failed(result) /\ result.error = a.error

\* a matched, and the parser f returned matched more behind it.
C14_Witness ==
  /\ Done("and_then_fn")
  /\ has_value(Run(call.self, Whole))
  /\ has_value(result)
  /\ result.input.len < Run(call.self, Whole).input.len

HelloWorldInput ==
  <<"h", "e", "l", "l", "o", ",", " ", "w", "o", "r", "l", "d">>

\* C15: and_then(a, b) succeeds iff a succeeds on s and b succeeds on a's
\* remainder; its value is b's value (a's is dropped) and its remainder is
\* b's remainder; the chain str("hello").skip(ws).and_then(str(","))
\* .skip(ws).and_then(str("world")) yields "world", the value of the last
\* parser.
C15_AndThen ==
  Done("and_then") =>
    LET a == Run(call.self, Whole)
        b == Run(call.next, a.input) IN
    /\ has_value(result) <=> (has_value(a) /\ has_value(b))
    /\ has_value(result) =>
         value(result) = value(b) /\ result.input = b.input
    /\ (call = HelloWorld /\ buf = HelloWorldInput) =>
         /\ has_value(result)
         /\ Text(value(result)) = <<"w", "o", "r", "l", "d">>

\* The chain of the test has parsed "hello, world".
C15_Witness ==
  /\ pc = "done"
  /\ call = HelloWorld
  /\ buf = HelloWorldInput
  /\ has_value(result)
  /\ empty(result.input)

\* C16: skip(a, b) succeeds iff a succeeds on s and b succeeds on a's
\* remainder; its value is a's value (b's is dropped) and its remainder is
\* b's remainder, so what b matched is consumed.
C16_Skip ==
  Done("skip") =>
    LET a == Run(call.parser, Whole)
        b == Run(call.next, a.input) IN
    /\ has_value(result) <=> (has_value(a) /\ has_value(b))
    /\ has_value(result) =>
         value(result) = value(a) /\ result.input = b.input

\* Both matched at least one character.
C16_Witness ==
  /\ Done("skip")
  /\ has_value(result)
  /\ Run(call.parser, Whole).input.len < Len(buf)
  /\ result.input.len < Run(call.parser, Whole).input.len

\* C17: transform(a, f) succeeds iff a succeeds on s; its value is f
\* applied to a's value (for the hex-digit callback of the tests: 10 plus
\* the distance of the letter from 'a') and its remainder is exactly a's
\* remainder; as(a, c) is transform with the constant function and gives c.
C17_Transform ==
  Done("transform") =>
    LET a == Run(call.self, Whole) IN
    /\ has_value(result) <=> has_value(a)
    /\ has_value(result) =>
         /\ result.input = a.input
         /\ value(result) = apply_fn(call.fn, value(a))
         /\ call.fn.f = "hexit_value" => value(result) = Ascii[buf[1]] - 87
         /\ call.fn.f = "as_value" => value(result) = call.fn.value

\* A letter mapped to its hex value with input left behind it.
C17_Witness ==
  /\ Done("transform")
  /\ call.fn.f = "hexit_value"
  /\ has_value(result)
  /\ value(result) = 11
  /\ result.input.len >= 1

\* C18: on a non-empty input not(p) succeeds iff p fails, and then it
\* consumes exactly one character; on an empty input, where p fails too,
\* not(p) still returns an outcome.
C18_Not ==
  Done("not") =>
    LET p == Run(call.parser, Whole) IN
    /\ buf # <<>> =>
         /\ has_value(result) <=> Failed(p)
         /\ has_value(result) =>
              /\ value(result) = [off |-> 0, len |-> 1]
              /\ result.input = [off |-> 1, len |-> Len(buf) - 1]
    /\ buf = <<>> => ~result.thrown

\* C19: a successful outcome reports a remainder that is a suffix of the
\* input: it starts at or behind the start of the input and ends where the
\* input ends, so that the consumed length, the length of the input less
\* that of the remainder, is never negative.
C19_RemainderSuffix ==
  (pc = "done" /\ has_value(result)) =>
    /\ result.input.off >= 0
    /\ result.input.off + result.input.len = Len(buf)
    /\ Len(buf) - result.input.len >= 0

\* parse_sequence succeeded between two characters of the input.
C19_Witness ==
  /\ Done("sequence")
  /\ has_value(result)
  /\ result.input.off >= 2
  /\ result.input.len >= 1

----------------------------------------------------------------------------
(* Termination of the repetitions.                                         *)

\* How many trips of its loop the repetition being run has completed.
Trips == IF pc = "some" THEN Len(frame.results) ELSE frame.count

\* C23: a repetition terminates in a number of steps bounded by the length
\* of the input, whatever its item parser is: while its loop runs it has
\* completed at most as many trips as the input has characters, also for
\* an item that succeeds without consuming (pure, optional, a nested some).
C23_Terminates ==
  pc \in {"some", "some_sv", "n_sv"} => Trips <= Len(buf)


----------------------------------------------------------------------------
(* The position a failing compound parser reports.                         *)

\* C24: a compound parser that fails reports the position at which the
\* failing sub-parser was attempted: skip(a, b) failing in b reports the
\* remainder of a, and transform(a, f), and_then(a, b) and and_not(a, b)
\* hand on a failure of a with the position and the diagnostic a reported.
C24_FailurePosition ==
  /\ Done("skip") =>
       LET a == Run(call.parser, Whole) IN
       (has_value(a) /\ Failed(Run(call.next, a.input))) =>
         (Failed(result) /\ result.input = a.input)
  /\ (pc = "done" /\ call.op \in {"transform", "and_then", "and_not"}) =>
       LET a == Run(call.self, Whole) IN
       Failed(a) =>
         /\ Failed(result)
         /\ result.input = a.input
         /\ result.error = a.error


----------------------------------------------------------------------------
(* What a finished repetition returns, against the matches of its item.    *)

\* How many matches the finished some or n took.
MatchCount ==
  IF call.op \in {"some_sv", "n_sv"} THEN frame.count
  ELSE Len(value(result))

\* The characters of the values of the first k matches, one behind the
\* other.
RECURSIVE ItemText(_, _)
ItemText(chain, k) ==
  IF k = 0 THEN <<>>
  ELSE ItemText(chain, k - 1) \o Text(value(chain[k]))

\* The character at offset i of the buffer belongs to the value of one of
\* the first k matches.
InItemValue(chain, k, i) ==
  \E j \in 1..k :
     /\ value(chain[j]).off <= i
     /\ i < value(chain[j]).off + value(chain[j]).len

\* C25: a span-valued some or n never returns as a success a span that
\* holds a character belonging to no item value or that differs from the
\* concatenation of the item values, also when the values of its item are
\* not adjacent in the buffer.
C25_NoFusedSpan ==
  (pc = "done" /\ call.op \in {"some_sv", "n_sv"} /\ has_value(result)) =>
    LET chain == Matches(call.parser)
        span == value(result) IN
    /\ MatchCount <= Len(chain)
    /\ Text(span) = ItemText(chain, MatchCount)
    /\ \A i \in span.off..(span.off + span.len - 1) :
          InItemValue(chain, MatchCount, i)

\* C26: on success some and n, generic and span-valued, report as the
\* remainder the remainder of the last successful application of the item,
\* or the input itself after zero matches, also when the item consumes
\* more characters than its value holds.
C26_LastRemainder ==
  (pc = "done" /\ call.op \in {"some", "n", "some_sv", "n_sv"}
     /\ has_value(result)) =>
    LET chain == Matches(call.parser) IN
    /\ MatchCount <= Len(chain)
    /\ result.input = After(chain, MatchCount)


----------------------------------------------------------------------------
(* The failures of delimited_by.                                           *)

\* C27: delimited_by(item, delimiter, terminator) fails whenever the final
\* bare item does not parse or the terminator does not match right behind
\* it; so, the item not matching the empty string, it fails on the
\* terminator alone, on a list whose last item is followed by a delimiter
\* and the terminator, and on an input that ends before the terminator.
C27_DelimitedFails ==
  Done("delimited_by") =>
    LET tokens == Matches(Skip(call.parser, call.delimiter))
        rest == After(tokens, Len(tokens))
        last == Run(call.parser, rest) IN
    /\ ~has_value(last) => Failed(result)
    /\ (has_value(last) /\ ~has_value(Run(call.terminator, last.input))) =>
         Failed(result)
    /\ call.terminator = Literal(";") =>
         /\ buf = <<";">> => Failed(result)
         /\ (Len(buf) >= 3 /\ buf[Len(buf) - 1] = ","
               /\ buf[Len(buf)] = ";") => Failed(result)
         /\ (\A i \in 1..Len(buf) : buf[i] # ";") => Failed(result)


\* C28: some(p, max) fails iff p matches more than max consecutive times
\* from the start of the input; offered at most max consecutive matches it
\* succeeds with all of them, zero matches included.
C28_SomeMax ==
  (pc = "done" /\ call.op \in {"some", "some_sv"} /\ call.max # <<>>) =>
    LET chain == Matches(call.parser)
        max == call.max[1] IN
    /\ Failed(result) <=> Len(chain) > max
    /\ Len(chain) <= max =>
         /\ has_value(result)
         /\ MatchCount = Len(chain)
         /\ call.op = "some" =>
              value(result) = [k \in 1..Len(chain) |-> value(chain[k])]


----------------------------------------------------------------------------
(* The span-collecting repetitions against the list-collecting ones.       *)

\* The characters of the first k elements of a list of spans.
RECURSIVE ListText(_, _)
ListText(list, k) ==
  IF k = 0 THEN <<>> ELSE ListText(list, k - 1) \o Text(list[k])

\* The list-collecting some or n given the item, min and max of the
\* span-collecting one being run, on the same input.
Generic ==
  LET item == Transform(call.parser, to_discontinuous) IN
  IF call.op = "some_sv" THEN Run(Some(item, call.max), Whole)
  ELSE Run(N(item, call.min, call.max), Whole)

\* C30: for an item parser of one character, whose value is the prefix it
\* consumed, the span-collecting some and n and the list-collecting ones
\* succeed on the same inputs, take the same number of matches and leave
\* the same remainder, and the span is the concatenation of the list.
C30_SpanRefinesList ==
  (pc = "done" /\ call.op \in {"some_sv", "n_sv"}
     /\ IsCharMatcher(call.parser)) =>
    /\ has_value(result) <=> has_value(Generic)
    /\ Failed(result) <=> Failed(Generic)
    /\ has_value(result) =>
         /\ frame.count = Len(value(Generic))
         /\ result.input = Generic.input
         /\ Text(value(result)) =
              ListText(value(Generic), Len(value(Generic)))

\* n(any_of("ab"), 1, 2) has taken two characters and left a third.
C30_Witness ==
  /\ Done("n_sv")
  /\ call.parser = AnyOf(<<"a", "b">>)
  /\ call.min = 1
  /\ call.max = <<2>>
  /\ has_value(result)
  /\ frame.count = 2
  /\ result.input.len = 1
  /\ Len(value(Generic)) = 2


----------------------------------------------------------------------------
(* The tie-back cell over the life of a recursive parser.                  *)

\* C29: the cell of a recursive parser is written once after its creation,
\* the placeholder being replaced by the completed definition before the
\* construction returns, and its target never changes afterwards: neither
\* an invocation nor a holder of the returned parser re-ties it.
C29_TiedOnce ==
  /\ [](pc # "idle" /\ call.op = "recursive" =>
          cells[call.cell].op \notin {"null", "never"})
  /\ [][\A cell \in Cells :
          cells[cell].op # "null" => cells'[cell] = cells[cell]]_vars

\* The expression parser has been built and invoked twice with success.
C29_Witness ==
  /\ pc = "again"
  /\ call = Recursive("expr")
  /\ cells["expr"].op \notin {"null", "never"}
  /\ cells["term"].op \notin {"null", "never"}
  /\ has_value(result)
  /\ has_value(again)
  /\ Len(buf) >= 3


----------------------------------------------------------------------------
(* Trimmed parsers.                                                        *)

\* The view without its leading whitespace.
RECURSIVE Stripped(_)
Stripped(input) ==
  IF input.len > 0 /\ buf[input.off + 1] = " "
  THEN Stripped([off |-> input.off + 1, len |-> input.len - 1])
  ELSE input

\* C22: trim(a)(s) succeeds iff a succeeds on s without its leading
\* whitespace; the value is then the value of a and the remainder is the
\* remainder of a without its leading whitespace, so that it never starts
\* with whitespace.
C22_Trim ==
  (pc = "done" /\ call.op = "skip" /\ call.parser.op = "and_then") =>
    LET a == Run(call.parser.next, Stripped(Whole)) IN
    /\ has_value(result) <=> has_value(a)
    /\ has_value(result) =>
         /\ value(result) = value(a)
         /\ result.input = Stripped(a.input)
         /\ result.input.len > 0 => buf[result.input.off + 1] # " "

\* trim(literal('a')) on " a  x": whitespace on both sides of the match.
C22_Witness ==
  /\ pc = "done"
  /\ call = Trim(Literal("a"))
  /\ buf = <<" ", "a", " ", " ", "x">>
  /\ has_value(result)
  /\ value(result) = [off |-> 1, len |-> 1]
  /\ result.input = [off |-> 4, len |-> 1]


----------------------------------------------------------------------------
(* Threads sharing a parser.                                               *)

\* C21: once the parser is built, recursive tie-back included, every
\* invocation of it that interleaves with invocations from other threads,
\* on the same or on another input, has the outcome it would have alone,
\* and no step of an invocation writes the parser, its cells, the buffer
\* or the state of another invocation.
C21_Isolated ==
  /\ [](\A t \in Threads :
          threads[t].pc = "done" =>
            /\ Same(threads[t].result, Run(call, threads[t].input))
            /\ threads[t].result.oob = Run(call, threads[t].input).oob)
  /\ [][pc = "built" =>
          /\ UNCHANGED <<buf, past, call, cells>>
          /\ \A t \in Threads :
                threads'[t] # threads[t] =>
                  \A u \in Threads \ {t} : threads'[u] = threads[u]]_vars

\* Thread 2 has run some(range('0','9')) to its end on one view while
\* thread 1 is inside the loop of the same parser on another view.
C21_Witness ==
  /\ pc = "built"
  /\ call = SomeSv(Range("0", "9"), <<>>)
  /\ threads[1].pc = "some_sv"
  /\ threads[1].frame.count = 1
  /\ threads[2].pc = "done"
  /\ threads[2].frame.count = 2
  /\ threads[2].input # threads[1].input
  /\ has_value(threads[2].result)

====
